---- MODULE Spec2Model ----
(***************************************************************************)
(* A model of house_watch.py: the poll / extract / diff / notify cycle     *)
(* (run_once), its durable state (load_state, save_state), the fetcher     *)
(* with bounded retries (fetch), the link extractor (extract_links), the   *)
(* notifier (telegram_notify) and the main loop (main).                    *)
(*                                                                         *)
(* The environment decides: what each HTTP request answers, whether a      *)
(* read or a write of the state file succeeds, whether Telegram accepts a  *)
(* message, and when the process is interrupted or killed and restarted.   *)
(***************************************************************************)
EXTENDS Integers, Sequences, FiniteSets, TLC

\* ------------------------------------------------------------------- state

VARIABLES
    args,         \* main: [interval, notify_first_run] of this process;
                  \* interval is 0 when --interval is not given (or --once is)
    fs,           \* the file system: path -> content
    pc,           \* where the process is
    state,        \* run_once: the dict load_state returned
    seen,         \* run_once: set(state.get("seen", []))
    newly_seen,   \* run_once: the list of new keys
    total_new,    \* run_once: the counter it returns
    src,          \* run_once: index of the source being processed
    links,        \* run_once: the links of this source still to process
    i,            \* fetch: the loop index
    last_err,     \* fetch: last_err
    fetchRes,     \* fetch: what the call gave back: the text of its n-th
                  \* response, or the error it raised
    exc,          \* the exception that left run_once, "none" if none
    ret,          \* the value run_once returned, -1 if it has not returned
    \* ---- history variables (observations, not read by the program)
    nreq,         \* requests.get calls made by the current fetch call
    lastResp,     \* the response of the latest requests.get
    sleeps,       \* time.sleep calls of the current fetch call, in tenths of s
    calls,        \* telegram_notify calls per fingerprint, in this process
    cycCalls,     \* telegram_notify calls made in the current cycle
    got,          \* per source: the links of its latest fetch, or a marker
    same,         \* so far this cycle every source gave what it gave last cycle
    everPersisted,\* every fingerprint that was ever in the state file
    readErr,      \* some load_state failed to read an existing state file
    clean,        \* no load_state or save_state of this process has failed
    cycFail,      \* some telegram_notify of the current cycle returned False
    lastNotify,   \* the telegram_notify call of the latest step, if it made one
    ext,          \* the locals of an extract_links call followed step by step
    loadKind,     \* how the load_state of this cycle ended
    init0,        \* state.get("initialized", False) as this cycle loaded it
    visited,      \* the sources this cycle has fetched (or failed to)
    cycSaves,     \* save_state calls made in the current cycle
    fileAtStart,  \* the state file when this cycle started
    crashPc,      \* where the process was when it was interrupted or killed
    cycles        \* cycles started so far

prog == <<args, fs, pc, state, seen, newly_seen, total_new, src, links,
          i, last_err, fetchRes, exc, ret>>

hist == <<nreq, lastResp, sleeps, calls, cycCalls, got, same, everPersisted,
          readErr, clean, cycFail, lastNotify, loadKind, init0, visited,
          cycSaves, fileAtStart, crashPc, cycles>>

vars == <<prog, hist, ext>>

\* ------------------------------------------------------------------ bounds

\* run_once cycles started over the whole behaviour (all processes together)
MaxCycles == 2
\* distinct listings the sites can show between them, dealt out to the sites
\* in turn
MaxLinks == 2
\* URL matches on one fetched page
MaxPageLen == 2

\* ------------------------------------------------------- program constants

\* fetch(url, retries=2, ...)
DefaultRetries == 2

\* SOURCES: name, the host of the query url (urlparse(url).netloc) and the
\* host the pattern's regular expression demands at the start of a match.
SOURCES ==
    << [name |-> "Idealista", domain |-> "www.idealista.it",
        pattern |-> "www.idealista.it"],
       [name |-> "Immobiliare.it", domain |-> "www.immobiliare.it",
        pattern |-> "www.immobiliare.it"] >>

\* STATE_FILE and the temporary path save_state writes to
STATE_FILE == "seen_listings.json"

\* ------------------------------------------------------------- small tools

Range(s) == {s[k] : k \in 1..Len(s)}

\* sequences over S of length at most n
SeqsUpTo(S, n) == UNION {[1..k -> S] : k \in 0..n}

\* dict.get(key, default) of a JSON object
DictGet(d, key, default) == IF key \in DOMAIN d THEN d[key] ELSE default

\* ----------------------------------------------------------- extract_links

\* A URL is a sequence of characters; its scheme and host are kept as one
\* element (the first), the rest are single characters.
\* str.find(sep): the least index where sep starts in s, 0 when absent
IndexOf(s, sep) ==
    LET hits == {k \in 1..(Len(s) - Len(sep) + 1) :
                    SubSeq(s, k, k + Len(sep) - 1) = sep}
    IN  IF hits = {} THEN 0 ELSE CHOOSE k \in hits : \A j \in hits : k <= j

\* s.split(sep)[0]
SplitFirst(s, sep) ==
    IF IndexOf(s, sep) = 0 THEN s ELSE SubSeq(s, 1, IndexOf(s, sep) - 1)

\* variant: only the fragment is cut off
FragmentCut(link) == SplitFirst(link, <<"#">>)

\* link.split('#')[0] then link.split('?utm_')[0]
Normalize(link) ==
    SplitFirst(SplitFirst(link, <<"#">>), <<"?", "u", "t", "m", "_">>)

\* urlparse(link).netloc
Netloc(link) == IF Len(link) = 0 THEN "" ELSE link[1]

\* a host spelled in capitals, and back (str.lower on the hosts of this model)
Upper(h) ==
    CASE h = "www.idealista.it" -> "WWW.IDEALISTA.IT"
      [] h = "www.immobiliare.it" -> "WWW.IMMOBILIARE.IT"
      [] OTHER -> h

Lower(h) ==
    CASE h = "WWW.IDEALISTA.IT" -> "www.idealista.it"
      [] h = "WWW.IMMOBILIARE.IT" -> "www.immobiliare.it"
      [] OTHER -> h

\* re.findall(pattern, text, flags=re.IGNORECASE): the URLs of the page, in
\* document order, whose host is the one the pattern spells out, in any
\* case, and that have a path after it
FindAll(pattern, text) ==
    SelectSeq(text, LAMBDA u : Len(u) >= 2 /\ Lower(u[1]) = pattern)

\* "domain in netloc", case sensitive, on the hosts of this model (none
\* contains another)
DomainIn(domain, netloc) == domain = netloc

\* the dedupe loop: keep the first occurrence of each element, in order
RECURSIVE Dedupe(_, _)
Dedupe(cleaned, deduped) ==
    IF cleaned = <<>> THEN deduped
    ELSE Dedupe(Tail(cleaned),
                IF Head(cleaned) \in Range(deduped) THEN deduped
                ELSE Append(deduped, Head(cleaned)))

\* the normalising loop of extract_links
RECURSIVE Clean(_, _)
Clean(matches, domain) ==
    IF matches = <<>> THEN <<>>
    ELSE LET link == Normalize(Head(matches))
         IN  IF DomainIn(domain, Netloc(link))
             THEN <<link>> \o Clean(Tail(matches), domain)
             ELSE Clean(Tail(matches), domain)

extract_links(html_text, pattern, domain) ==
    Dedupe(Clean(FindAll(pattern, html_text), domain), <<>>)

\* sha_of: SHA-256 of the link, taken as collision free
sha_of(s) == <<"sha256", s>>

\* ------------------------------------------------------ the model's inputs

Hosts == {SOURCES[k].domain : k \in 1..Len(SOURCES)}

\* the ids of the listings site k can show
Listings(k) == 1..((MaxLinks - k + Len(SOURCES)) \div Len(SOURCES))

\* the URLs the page of source k may hold: the site's own listings, bare or
\* followed by a tracking parameter and a fragment, a listing of another
\* site, and a listing with the site's host in capitals
RawLinks(k) ==
    {<<SOURCES[k].domain, ToString(n)>> : n \in Listings(k)}
        \cup {<<SOURCES[k].domain, ToString(n),
                "?", "u", "t", "m", "_", "s", "#", "t">> : n \in Listings(k)}
        \cup {<<h, "1">> : h \in Hosts \ {SOURCES[k].domain}}
        \cup {<<Upper(SOURCES[k].domain), "1", "#", "t">>}

Pages == [k \in 1..Len(SOURCES) |-> SeqsUpTo(RawLinks(k), MaxPageLen)]

\* <<k, extract_links(text, src["pattern"], domain)>> for every page text of
\* every source k: what run_once can get from a fetched page
Extractable ==
    UNION {{<<k, extract_links(p, SOURCES[k].pattern, SOURCES[k].domain)>> :
                p \in Pages[k]} : k \in 1..Len(SOURCES)}

\* the normalised links and the fingerprints that can come out of them
Links ==
    UNION {{<<SOURCES[k].domain, ToString(n)>> : n \in Listings(k)} :
              k \in 1..Len(SOURCES)}

Fingerprints == {sha_of(l) : l \in Links}

\* the values of --interval: absent, a number of seconds, a negative number
\* (argparse takes any int)
Intervals == {0, 60, -1}

\* what one HTTP GET can answer: a status line (the body, resp.text, is
\* drawn when extract_links reads it), or a transport exception
Responses ==
    [kind : {"http"}, status : {200, 503}]
        \cup [kind : {"exc"}, msg : {"timed out"}]

\* the message of a failed attempt: f"HTTP {resp.status_code}" or str(e)
ErrOf(resp) ==
    IF resp.kind = "http"
    THEN (CASE resp.status = 503 -> "HTTP 503" [] OTHER -> "HTTP")
    ELSE resp.msg

TmpPath == "seen_listings.json.tmp"

Missing == [kind |-> "missing"]

NoResp == [kind |-> "none"]

NoFetch == [kind |-> "none"]

\* values of got: no completed cycle has processed the source; its fetch
\* raised; the links extract_links found
NoRun == [kind |-> "none", links |-> <<>>]

Failed == [kind |-> "failed", links |-> <<>>]

Found(ls) == [kind |-> "links", links |-> ls]

\* ------------------------------------------------------ load_state / save

\* variant: the fresh state counts as initialized
load_state_initialized(f, readable) ==
    IF f.kind = "missing" \/ ~readable \/ f.kind # "ok"
    THEN [seen |-> {}, initialized |-> TRUE]
    ELSE f.data

\* load_state: the FileNotFoundError branch, the except Exception branch
\* (the file cannot be read, or json.load rejects it), or the parsed object
load_state(f, readable) ==
    IF f.kind = "missing" THEN [seen |-> {}]
    ELSE IF ~readable \/ f.kind # "ok" THEN [seen |-> {}]
    ELSE f.data

LoadOutcome(f, readable) ==
    IF f.kind = "missing" THEN "missing"
    ELSE IF ~readable THEN "unreadable"
    ELSE IF f.kind # "ok" THEN "unparsable"
    ELSE "ok"

\* variant: the state is written straight to STATE_FILE
SaveInPlace == STATE_FILE

\* the path save_state writes to before the rename
SaveTmp == TmpPath

\* variant: the new keys replace the old ones
OnlyNewlySeen(sn, newly) == Range(newly)

\* variant: the new keys are left out
OnlySeen(sn, newly) == sn

\* state["seen"] = list(seen.union(newly_seen))
UpdatedSeen(sn, newly) == sn \cup Range(newly)

\* variant: the initialized flag is left as it was loaded
UpdatedStateFlagKept(st, sn, newly) ==
    [k \in (DOMAIN st) \cup {"seen"} |->
        IF k = "seen" THEN UpdatedSeen(sn, newly) ELSE st[k]]

\* the dict run_once hands to save_state: initialized set, seen replaced
UpdatedState(st, sn, newly) ==
    [k \in (DOMAIN st) \cup {"initialized", "seen"} |->
        IF k = "initialized"
        THEN (IF ~DictGet(st, "initialized", FALSE) THEN TRUE ELSE st[k])
        ELSE IF k = "seen" THEN UpdatedSeen(sn, newly)
        ELSE st[k]]

\* ----------------------------------------------------------------- run_once

\* variant: only the command-line flag is looked at
NotifyOnFlagOnly(notify_first_run, st) == notify_first_run

\* variant: the first-run condition is missing
NotifyAlways(notify_first_run, st) == TRUE

\* if notify_first_run or state.get("initialized", False)
ShouldNotify(notify_first_run, st) ==
    notify_first_run \/ DictGet(st, "initialized", FALSE)

\* variant: the membership test is missing
EveryKeyNew(key, sn) == TRUE

\* if key not in seen
IsNew(key, sn) == key \notin sn

\* variant: a key is recorded only once its notification went out
RecordsWhenSent(outcome) == outcome = "sent"

\* newly_seen.append(key) runs before the notification and whatever becomes
\* of it
Records(outcome) == TRUE

\* variant: the state is saved as soon as one source is done
SaveAfterEachSource(k) == "save"

\* where run_once goes once source k is done: the next source or the update
AfterSource(k) == IF k < Len(SOURCES) THEN "fetch" ELSE "save"

\* ------------------------------------------------------------------- fetch

\* variant: one iteration too many
LoopOneMore(k, retries) == k + 1 < retries + 2

\* for i in range(retries + 1): whether another iteration follows index k
LoopContinues(k, retries) == k + 1 < retries + 1

\* time.sleep(1.5 * (i + 1)), in tenths of a second
Backoff(k) == 15 * (k + 1)

\* --------------------------------------------------------- telegram_notify

\* os.environ.get(...) of a credential: unset, empty or set
Creds == {"None", "", "x"}

\* what requests.post can give: status 200, another status, an exception
PostResults == {"200", "other", "exc"}

\* not token, not chat_id
Absent(v) == v \in {"None", ""}

\* variant: the call is skipped only when both credentials are absent
BothMissing(token, chat_id) == Absent(token) /\ Absent(chat_id)

\* if not token or not chat_id
CredsMissing(token, chat_id) == Absent(token) \/ Absent(chat_id)

\* what a call does: skip (a credential is absent), or post and get an
\* answer (200, or another status / an exception)
NotifyOutcome(token, chat_id, post) ==
    IF CredsMissing(token, chat_id) THEN "disabled"
    ELSE IF post = "200" THEN "sent"
    ELSE "failed"

\* whether the call reaches requests.post
NotifyPosts(outcome) == outcome # "disabled"

NoNotify == [kind |-> "none"]

\* no extract_links call is being followed
NoExtract == [pc |-> "none"]

\* the value telegram_notify returns
NotifyReturns(outcome) == outcome = "sent"

\* -------------------------------------------------------------- the actions

IdleLocals ==
    /\ state' = [seen |-> {}]
    /\ seen' = {}
    /\ newly_seen' = <<>>
    /\ total_new' = 0
    /\ src' = 0
    /\ links' = <<>>
    /\ i' = 0
    /\ last_err' = "None"
    /\ fetchRes' = NoFetch
    /\ exc' = "none"
    /\ ret' = -1
    /\ nreq' = 0
    /\ lastResp' = NoResp
    /\ sleeps' = <<>>
    /\ cycCalls' = 0
    /\ cycFail' = FALSE
    /\ lastNotify' = NoNotify
    /\ ext' = NoExtract
    /\ same' = TRUE
    /\ loadKind' = "none"
    /\ init0' = FALSE
    /\ visited' = {}
    /\ cycSaves' = 0

\* the process after start-up, no extract_links call looked into
Started ==
    /\ args \in [interval : Intervals, notify_first_run : BOOLEAN]
    /\ \E f \in {Missing, [kind |-> "corrupt"]} :
          fs = (STATE_FILE :> f) @@ (TmpPath :> Missing)
    /\ pc = "idle"
    /\ state = [seen |-> {}]
    /\ seen = {}
    /\ newly_seen = <<>>
    /\ total_new = 0
    /\ src = 0
    /\ links = <<>>
    /\ i = 0
    /\ last_err = "None"
    /\ fetchRes = NoFetch
    /\ exc = "none"
    /\ ret = -1
    /\ nreq = 0
    /\ lastResp = NoResp
    /\ sleeps = <<>>
    /\ calls = [k \in Fingerprints |-> 0]
    /\ cycCalls = 0
    /\ cycFail = FALSE
    /\ lastNotify = NoNotify
    /\ got = [k \in 1..Len(SOURCES) |-> NoRun]
    /\ same = TRUE
    /\ everPersisted = {}
    /\ readErr = FALSE
    /\ clean = TRUE
    /\ loadKind = "none"
    /\ init0 = FALSE
    /\ visited = {}
    /\ cycSaves = 0
    /\ fileAtStart = fs[STATE_FILE]
    /\ crashPc = "none"
    /\ cycles = 0

Init ==
    /\ Started
    /\ ext = NoExtract

\* main calls run_once; run_once lines 134-138: load_state, the locals
StartCycle(readable) ==
    /\ pc = "idle"
    /\ cycles < MaxCycles
    /\ cycles' = cycles + 1
    /\ state' = load_state(fs[STATE_FILE], readable)
    /\ seen' = DictGet(state', "seen", {})
    /\ newly_seen' = <<>>
    /\ total_new' = 0
    /\ src' = 1
    /\ pc' = "fetch"
    /\ loadKind' = LoadOutcome(fs[STATE_FILE], readable)
    /\ init0' = DictGet(state', "initialized", FALSE)
    /\ visited' = {}
    /\ cycSaves' = 0
    /\ readErr' = (readErr \/ loadKind' = "unreadable")
    /\ clean' = (clean /\ loadKind' # "unreadable")
    /\ fileAtStart' = fs[STATE_FILE]
    /\ same' = TRUE
    /\ cycCalls' = 0
    /\ cycFail' = FALSE
    /\ lastNotify' = NoNotify
    /\ ext' = NoExtract
    /\ UNCHANGED <<args, fs, links, i, last_err, fetchRes, exc, ret,
                   nreq, lastResp, sleeps, calls, got, everPersisted, crashPc>>

\* one iteration of the loop of fetch: a request, then return, or note the
\* error and sleep; after the last iteration, raise
FetchAttempt(resp) ==
    /\ pc = "fetch"
    /\ nreq' = nreq + 1
    /\ lastNotify' = NoNotify
    /\ ext' = NoExtract
    /\ lastResp' = resp
    /\ IF resp.kind = "http" /\ resp.status = 200
       THEN /\ fetchRes' = [kind |-> "ret", textOf |-> nreq']
            /\ pc' = "fetch_done"
            /\ UNCHANGED <<i, last_err, sleeps>>
       ELSE /\ last_err' = ErrOf(resp)
            /\ sleeps' = Append(sleeps, Backoff(i))
            /\ IF LoopContinues(i, DefaultRetries)
               THEN /\ i' = i + 1
                    /\ UNCHANGED <<fetchRes, pc>>
               ELSE /\ fetchRes' = [kind |-> "raise", err |-> last_err']
                    /\ pc' = "fetch_done"
                    /\ i' = i
    /\ UNCHANGED <<args, fs, state, seen, newly_seen, total_new, src,
                   links, exc, ret, calls, cycCalls, cycFail, got, same,
                   everPersisted, readErr, clean, loadKind, init0, visited,
                   cycSaves, fileAtStart, crashPc, cycles>>

\* variant: the exception of fetch is not caught
FetchErrorPropagates(k) == "raised"

\* what run_once does with a fetch that raised: log and continue
OnFetchError(k) == AfterSource(k)

\* run_once lines 146-153: the except branch, or extract_links on the text
\* fetch returned; extracted is what extract_links makes of that text
AfterFetch(extracted) ==
    /\ pc = "fetch_done"
    /\ <<src, extracted>> \in Extractable
    /\ fetchRes.kind = "raise" => extracted = <<>>
    /\ LET found == IF fetchRes.kind = "raise" THEN Failed
                    ELSE Found(extracted)
           next == IF fetchRes.kind = "raise" THEN OnFetchError(src)
                   ELSE IF found.links = <<>> THEN AfterSource(src)
                   ELSE "links"
       IN  /\ links' = found.links
           /\ got' = [got EXCEPT ![src] = found]
           /\ visited' = visited \cup {src}
           /\ same' = (same /\ found = got[src])
           /\ pc' = next
           /\ src' = IF next = "fetch" THEN src + 1 ELSE src
           /\ exc' = IF next = "raised" THEN "fetch" ELSE exc
    /\ ext' = NoExtract
    /\ fetchRes' = NoFetch
    /\ lastNotify' = NoNotify
    /\ i' = 0
    /\ last_err' = "None"
    /\ nreq' = 0
    /\ lastResp' = NoResp
    /\ sleeps' = <<>>
    /\ UNCHANGED <<args, fs, state, seen, newly_seen, total_new, ret, calls,
                   cycCalls, cycFail, everPersisted, readErr, clean,
                   loadKind, init0, cycSaves, fileAtStart, crashPc, cycles>>

\* one iteration of "for link in links" (lines 155-164)
ProcessLink(token, chat_id, post) ==
    /\ pc = "links"
    /\ links # <<>>
    /\ LET link == Head(links)
           key == sha_of(link)
           new == IsNew(key, seen)
           called == new /\ ShouldNotify(args.notify_first_run, state)
           outcome == IF called THEN NotifyOutcome(token, chat_id, post)
                      ELSE "dryrun"
       IN  \* inputs that are not read are fixed: one step for one execution
           /\ ~called => token = "x" /\ chat_id = "x"
           /\ ~(called /\ NotifyPosts(outcome)) => post = "200"
           /\ total_new' = IF new THEN total_new + 1 ELSE total_new
           /\ newly_seen' = IF new /\ Records(outcome)
                            THEN Append(newly_seen, key)
                            ELSE newly_seen
           /\ IF called
              THEN /\ calls' = [calls EXCEPT ![key] = @ + 1]
                   /\ cycCalls' = cycCalls + 1
                   /\ cycFail' = (cycFail \/ ~NotifyReturns(outcome))
                   /\ lastNotify' = [kind |-> "call", key |-> key,
                                     token |-> token, chat_id |-> chat_id,
                                     posted |-> NotifyPosts(outcome),
                                     returned |-> NotifyReturns(outcome)]
              ELSE /\ lastNotify' = NoNotify
                   /\ UNCHANGED <<calls, cycCalls, cycFail>>
    /\ ext' = NoExtract
    /\ links' = Tail(links)
    /\ pc' = IF links' = <<>> THEN AfterSource(src) ELSE "links"
    /\ src' = IF pc' = "fetch" THEN src + 1 ELSE src
    /\ UNCHANGED <<args, fs, state, seen, i, last_err, fetchRes, exc,
                   ret, nreq, lastResp, sleeps, got, same, everPersisted,
                   readErr, clean, loadKind, init0, visited, cycSaves,
                   fileAtStart, crashPc, cycles>>

\* a step of save_state failed: the exception leaves run_once
SaveRaises ==
    /\ pc' = "raised"
    /\ exc' = "save"
    /\ clean' = FALSE
    /\ UNCHANGED <<ret, everPersisted>>

\* os.replace(a, b)
Replace(f, a, b) ==
    IF a = b THEN f ELSE [f EXCEPT ![b] = f[a], ![a] = Missing]

PersistedIn(f) ==
    IF f[STATE_FILE].kind = "ok" THEN DictGet(f[STATE_FILE].data, "seen", {})
    ELSE {}

\* run_once lines 167-169, then save_state line 58: open(tmp, "w")
SaveOpen(ok) ==
    /\ pc = "save"
    /\ state' = UpdatedState(state, seen, newly_seen)
    /\ IF ok
       THEN /\ fs' = [fs EXCEPT ![SaveTmp] = [kind |-> "partial"]]
            /\ pc' = "save_dump"
            /\ UNCHANGED <<exc, ret, clean>>
       ELSE /\ SaveRaises
            /\ UNCHANGED fs
    /\ everPersisted' = everPersisted \cup PersistedIn(fs')
    /\ lastNotify' = NoNotify
    /\ ext' = NoExtract
    /\ cycSaves' = cycSaves + 1
    /\ UNCHANGED <<args, seen, newly_seen, total_new, src, links, i,
                   last_err, fetchRes, nreq, lastResp, sleeps, calls,
                   cycCalls, cycFail, got, same, readErr, loadKind,
                   init0, visited, fileAtStart, crashPc, cycles>>

\* save_state line 59: json.dump and the close of the with block
SaveDump(ok) ==
    /\ pc = "save_dump"
    /\ IF ok
       THEN /\ fs' = [fs EXCEPT ![SaveTmp] = [kind |-> "ok", data |-> state]]
            /\ pc' = "save_replace"
            /\ UNCHANGED <<exc, ret, clean>>
       ELSE /\ SaveRaises
            /\ UNCHANGED fs
    /\ everPersisted' = everPersisted \cup PersistedIn(fs')
    /\ lastNotify' = NoNotify
    /\ ext' = NoExtract
    /\ UNCHANGED <<args, state, seen, newly_seen, total_new, src,
                   links, i, last_err, fetchRes, nreq, lastResp, sleeps,
                   calls, cycCalls, cycFail, got, same, readErr, loadKind,
                   init0, visited, cycSaves, fileAtStart, crashPc, cycles>>

\* save_state line 60: os.replace; then run_once returns total_new
SaveReplace(ok) ==
    /\ pc = "save_replace"
    /\ IF ok
       THEN /\ fs' = Replace(fs, SaveTmp, STATE_FILE)
            /\ pc' = "returned"
            /\ ret' = total_new
            /\ UNCHANGED <<exc, clean>>
       ELSE /\ SaveRaises
            /\ UNCHANGED fs
    /\ everPersisted' = everPersisted \cup PersistedIn(fs')
    /\ lastNotify' = NoNotify
    /\ ext' = NoExtract
    /\ UNCHANGED <<args, state, seen, newly_seen, total_new, src,
                   links, i, last_err, fetchRes, nreq, lastResp, sleeps,
                   calls, cycCalls, cycFail, got, same, readErr, loadKind,
                   init0, visited, cycSaves, fileAtStart, crashPc, cycles>>

\* if args.once or not args.interval: a single run, no loop
OnceMode(interval) == interval = 0

\* time.sleep(secs) raises ValueError when secs is negative
SleepRaises(secs) == secs < 0

\* time.sleep(args.interval) at the end of an iteration of the loop: it is
\* outside the try, so its exception ends the process
AfterSleep(interval) == IF SleepRaises(interval) THEN "exited" ELSE "idle"

\* what main does when run_once raised an Exception: a single run lets it
\* out, the loop catches it, logs and goes to the sleep
OnCycleError(interval) ==
    IF OnceMode(interval) THEN "exited" ELSE AfterSleep(interval)

\* main: after run_once returned or raised. The loop of interval mode
\* catches the exception, sleeps and goes round; a single run ends
MainContinue ==
    /\ pc \in {"returned", "raised"}
    /\ pc' = IF pc = "raised" THEN OnCycleError(args.interval)
             ELSE IF OnceMode(args.interval) THEN "exited"
             ELSE AfterSleep(args.interval)
    /\ got' = IF pc = "raised" THEN [k \in 1..Len(SOURCES) |-> NoRun] ELSE got
    /\ IdleLocals
    /\ fileAtStart' = fs[STATE_FILE]
    /\ UNCHANGED <<args, fs, calls, everPersisted, readErr, clean, crashPc,
                   cycles>>

\* KeyboardInterrupt, or the process is killed, anywhere
Interrupt ==
    /\ pc # "exited"
    /\ pc' = "exited"
    /\ crashPc' = pc
    /\ got' = IF pc = "idle" THEN got ELSE [k \in 1..Len(SOURCES) |-> NoRun]
    /\ IdleLocals
    /\ UNCHANGED <<args, fs, calls, everPersisted, readErr, clean,
                   fileAtStart, cycles>>

\* the program is started again, with the same arguments and environment
Restart ==
    /\ pc = "exited"
    /\ cycles < MaxCycles
    /\ pc' = "idle"
    /\ calls' = [k \in Fingerprints |-> 0]
    /\ clean' = TRUE
    /\ crashPc' = "none"
    /\ lastNotify' = NoNotify
    /\ ext' = NoExtract
    /\ fileAtStart' = fs[STATE_FILE]
    /\ UNCHANGED <<args, fs, state, seen, newly_seen, total_new, src,
                   links, i, last_err, fetchRes, exc, ret, nreq, lastResp,
                   sleeps, cycCalls, cycFail, got, same, everPersisted,
                   readErr, loadKind, init0, visited, cycSaves, cycles>>

Next ==
    \/ \E readable \in BOOLEAN : StartCycle(readable)
    \/ \E resp \in Responses : FetchAttempt(resp)
    \/ \E x \in Extractable : AfterFetch(x[2])
    \/ \E token \in Creds, chat_id \in Creds, post \in PostResults :
          ProcessLink(token, chat_id, post)
    \/ \E ok \in BOOLEAN : SaveOpen(ok)
    \/ \E ok \in BOOLEAN : SaveDump(ok)
    \/ \E ok \in BOOLEAN : SaveReplace(ok)
    \/ MainContinue
    \/ Interrupt
    \/ Restart

Spec == Init /\ [][Next]_vars

\* ------------------------------------------------------------ observations

\* the positions inside a cycle, from load_state to the call of save_state
BeforeSave == {"fetch", "fetch_done", "links", "save"}

\* the positions inside save_state
InSave == {"save_dump", "save_replace"}

\* the keys of the links the sources fetched in this cycle have given
FoundKeys ==
    UNION {{sha_of(got[k].links[j]) : j \in 1..Len(got[k].links)} :
              k \in visited}

\* those of them the loaded seen set did not hold
NewKeys == FoundKeys \ seen

AtMostOneCall == \A fp \in Fingerprints : calls[fp] <= 1

\* ----------------------------------------------------------------------- C1

SeenKept ==
    /\ everPersisted \subseteq PersistedIn(fs)
    /\ pc \in BeforeSave => everPersisted \subseteq seen
    /\ pc \in InSave => everPersisted \subseteq DictGet(state, "seen", {})

\* C2, as stated: whatever load_state hits (a missing, unreadable or
\* unparsable file included), every fingerprint ever persisted is still in the
\* file, in the seen set the next cycle loads and in the state the next
\* save_state writes.
C2_AsStated == SeenKept

\* C2, amended: the same, across cycles none of whose load_state calls failed
\* to read an existing state file.
C2_SeenMonotonic == ~readErr => SeenKept

\* a later cycle is about to replace a non-empty persisted set by a larger one
C2_Witness ==
    /\ ~readErr
    /\ cycles >= 2
    /\ pc = "save_replace"
    /\ everPersisted # {}
    /\ newly_seen # <<>>
    /\ fs[SaveTmp].kind = "ok"
    /\ everPersisted \subseteq DictGet(fs[SaveTmp].data, "seen", {})

\* ----------------------------------------------------------------------- C3

\* C3, as stated: a run in which every source gives what it gave in the run
\* before it returns 0 and calls telegram_notify zero times.
C3_AsStated == (pc = "returned" /\ same) => (ret = 0 /\ cycCalls = 0)

\* C3, amended: the same, when the second run's load_state reads the state
\* file the first run saved.
C3_SecondRunFindsNothing ==
    (pc = "returned" /\ same /\ loadKind = "ok") => (ret = 0 /\ cycCalls = 0)

\* the second run was offered links, the same as the first, and returned 0
C3_Witness ==
    /\ pc = "returned"
    /\ same
    /\ loadKind = "ok"
    /\ FoundKeys # {}
    /\ ret = 0

\* ----------------------------------------------------------------------- C4

\* C4: a cycle that loaded a state whose initialized flag is false, with
\* first-run notifications suppressed, calls telegram_notify zero times; when
\* it returns, it returns the number n of new links it found, all n
\* fingerprints are in the persisted seen set, and the persisted state has
\* initialized = true.
C4_FirstRunSuppressed ==
    (loadKind # "none" /\ ~init0 /\ ~args.notify_first_run) =>
        /\ cycCalls = 0
        /\ pc = "returned" =>
              /\ ret = Cardinality(NewKeys)
              /\ NewKeys \subseteq PersistedIn(fs)
              /\ fs[STATE_FILE].kind = "ok"
              /\ DictGet(fs[STATE_FILE].data, "initialized", FALSE)

\* a suppressed first run found a new link at each source and returned 2
C4_Witness ==
    /\ pc = "returned"
    /\ ~init0
    /\ ~args.notify_first_run
    /\ Cardinality(NewKeys) = Len(SOURCES)
    /\ ret = Len(SOURCES)
    /\ cycCalls = 0
    /\ NewKeys \subseteq PersistedIn(fs)

\* ----------------------------------------------------------------------- C5

\* C5: in a cycle where fetch raised for some of the sources, run_once raises
\* nothing because of it (only save_state can make it raise), every source
\* has been processed by the time the cycle saves, and the cycle returns the
\* number of new links of the sources whose fetch succeeded, with their
\* fingerprints persisted.
C5_FetchFailureIsolated ==
    (\E k \in visited : got[k].kind = "failed") =>
        /\ pc = "raised" => exc = "save"
        /\ pc \in {"save"} \cup InSave \cup {"returned"} =>
              visited = 1..Len(SOURCES)
        /\ pc = "returned" =>
              /\ ret = Cardinality(NewKeys)
              /\ NewKeys \subseteq PersistedIn(fs)

\* the first source failed, the second gave a new link: the cycle returned 1
\* and persisted the link's fingerprint
C5_Witness ==
    /\ pc = "returned"
    /\ got[1].kind = "failed"
    /\ got[2].kind = "links"
    /\ ret = 1
    /\ NewKeys # {}
    /\ NewKeys \subseteq PersistedIn(fs)

\* ----------------------------------------------------------------------- C6

\* C6: before and while save_state runs, and after a crash at any of these
\* points, the state file is what it was when the cycle started; the state file never holds a partly
\* written state: during a cycle it holds the old state, or, once the cycle
\* has returned, the whole new one.
C6_AtomicPersistence ==
    /\ fs[STATE_FILE].kind # "partial"
    /\ (pc \in {"save"} \cup InSave
          \/ (pc = "exited" /\ crashPc \in {"save"} \cup InSave)) =>
          fs[STATE_FILE] = fileAtStart
    /\ loadKind # "none" =>
          \/ fs[STATE_FILE] = fileAtStart
          \/ pc = "returned" /\ fs[STATE_FILE] = [kind |-> "ok", data |-> state]

\* the process was killed between the write of the temporary file and the
\* rename: the temporary file holds the new state, the state file the old one
C6_Witness ==
    /\ pc = "exited"
    /\ crashPc = "save_replace"
    /\ fs[SaveTmp].kind = "ok"
    /\ fs[STATE_FILE].kind = "ok"
    /\ fs[STATE_FILE] = fileAtStart
    /\ fs[SaveTmp] # fs[STATE_FILE]

\* ----------------------------------------------------------------------- C7

\* after a link, the cycle goes on: to the next link, the next source or the
\* update of the state (unless the process is interrupted)
GoesOnAfterLink ==
    (pc = "links" /\ crashPc' = crashPc) =>
        /\ pc' \in {"links", "fetch", "save"}
        /\ links' = Tail(links)

\* every new link found is recorded, and persisted once the cycle has
\* returned, whatever became of its notification
NewKeysKept ==
    /\ pc \in {"save"} \cup InSave \cup {"returned"} =>
          NewKeys = Range(newly_seen)
    /\ pc = "returned" => NewKeys \subseteq PersistedIn(fs)

\* a step that calls telegram_notify for a persisted fingerprint
NotifiesAgain ==
    \E fp \in Fingerprints : calls'[fp] > calls[fp] /\ fp \in everPersisted

\* C7, as stated: whether telegram_notify returns true, returns false or is
\* not called, the cycle continues with the next link, the new link's
\* fingerprint is in the state persisted at the end of the cycle, and no later
\* cycle calls telegram_notify for it again.
C7_AsStated ==
    /\ []NewKeysKept
    /\ [][GoesOnAfterLink]_vars
    /\ [][~NotifiesAgain]_vars

\* C7, amended: the same, where no later cycle calls telegram_notify for it
\* again as long as no load_state has failed to read the state file.
C7_NotifyFailureNotFatal ==
    /\ []NewKeysKept
    /\ [][GoesOnAfterLink]_vars
    /\ [][~readErr' => ~NotifiesAgain]_vars

\* a cycle in which a telegram_notify call returned False has returned, with
\* the fingerprints of its new links persisted
C7_Witness ==
    /\ pc = "returned"
    /\ cycFail
    /\ newly_seen # <<>>
    /\ Range(newly_seen) \subseteq PersistedIn(fs)

\* ----------------------------------------------------------------------- C8

Is200(resp) == resp.kind = "http" /\ resp.status = 200

\* C8: fetch makes at most retries + 1 requests; it goes on to another
\* request only after a failed one and returns the text of the first response
\* with status 200, which is the last request it makes; it raises only after
\* retries + 1 failed requests, with the message of the last of them.
C8_BoundedRetry ==
    /\ nreq <= DefaultRetries + 1
    /\ (pc = "fetch" /\ nreq > 0) => ~Is200(lastResp)
    /\ fetchRes.kind = "ret" =>
          /\ Is200(lastResp)
          /\ fetchRes.textOf = nreq
    /\ fetchRes.kind = "raise" =>
          /\ nreq = DefaultRetries + 1
          /\ ~Is200(lastResp)
          /\ fetchRes.err = ErrOf(lastResp)

\* fetch returned the text of its last allowed request, after two failures
C8_Witness ==
    /\ fetchRes.kind = "ret"
    /\ nreq = DefaultRetries + 1
    /\ Len(sleeps) = DefaultRetries

\* ----------------------------------------------------------------------- C9

\* C9: a cycle whose load_state found the state file missing, unreadable or
\* unparsable has an empty seen set and a state that reads as not
\* initialized (so it notifies only if notify_first_run is set); load_state
\* raised nothing: the cycle goes on, and only save_state can make it raise.
C9_LoadNeverFails ==
    loadKind \in {"missing", "unreadable", "unparsable"} =>
        /\ seen = {}
        /\ ~init0
        /\ pc \in BeforeSave => state = [seen |-> {}]
        /\ ~args.notify_first_run => cycCalls = 0
        /\ pc \in BeforeSave \cup InSave \cup {"returned", "raised"}
        /\ pc = "raised" => exc = "save"

\* a cycle that could not parse the state file ran to its end and returned
\* the number of links it found
C9_Witness ==
    /\ pc = "returned"
    /\ loadKind = "unparsable"
    /\ ret >= 1
    /\ fs[STATE_FILE].kind = "ok"

\* ---------------------------------------------------------------------- C10

\* when save_state has raised, run_once has raised (it returned nothing) and
\* the state file is what it was when the cycle started
SaveFailureLeavesFile ==
    (pc = "raised" /\ exc = "save") =>
        /\ ret = -1
        /\ fs[STATE_FILE] = fileAtStart

\* in interval mode, the step main takes after run_once raised leads to the
\* next cycle (unless the process is interrupted)
LoopGoesOn ==
    (pc = "raised" /\ ~OnceMode(args.interval) /\ crashPc' = crashPc) =>
        pc' = "idle"

\* C10: a failure of save_state propagates out of run_once and leaves the
\* state file unchanged; in interval mode the loop catches it and goes on to
\* the next cycle.
C10_SaveFailureHandled ==
    /\ []SaveFailureLeavesFile
    /\ [][LoopGoesOn]_vars

\* ---------------------------------------------------------------------- C11

\* the specification with the scheduling the code guarantees: main does not
\* stall after a cycle, and the sleep between two cycles ends
LiveSpec ==
    /\ Spec
    /\ WF_vars(MainContinue)
    /\ WF_vars(\E readable \in BOOLEAN : StartCycle(readable))

\* in interval mode the process ends only when it is interrupted
StopsOnlyOnInterrupt ==
    (~OnceMode(args.interval) /\ pc # "exited" /\ pc' = "exited") =>
        crashPc' = pc

\* a cycle of interval mode has ended, and the model has cycles left
CycleEnded ==
    /\ ~OnceMode(args.interval)
    /\ pc \in {"returned", "raised"}
    /\ cycles < MaxCycles

\* C11: in interval mode, whenever a cycle ends, by returning or by raising
\* an exception, the process does not terminate and another cycle is
\* eventually started; the loop stops only on interruption.
C11_ResilientLoop ==
    /\ [][StopsOnlyOnInterrupt]_vars
    /\ CycleEnded ~> (pc = "fetch" \/ crashPc # "none")

\* ---------------------------------------------------------------------- C12

\* some cycle has completed: only a completed save_state leaves a state file
\* that parses, and no step takes it away again
SomeCycleCompleted(f) == f.kind = "ok"

\* the flag never goes back in the state file
FlagPersisted ==
    SomeCycleCompleted(fs[STATE_FILE]) =>
        DictGet(fs[STATE_FILE].data, "initialized", FALSE)

\* C12, as stated: once a cycle has completed, every later cycle observes
\* initialized = true, also when its load_state cannot read or parse the
\* state file, and first-run suppression never applies again (every new link
\* is notified).
C12_AsStated ==
    /\ FlagPersisted
    /\ (loadKind # "none" /\ SomeCycleCompleted(fileAtStart)) =>
          /\ init0
          /\ cycCalls = total_new

\* C12, amended: once a cycle has completed, the persisted flag stays true,
\* and every later cycle whose load_state reads the state file observes
\* initialized = true and is not subject to first-run suppression.
C12_InitializedOneWay ==
    /\ FlagPersisted
    /\ (loadKind = "ok" /\ SomeCycleCompleted(fileAtStart)) =>
          /\ init0
          /\ cycCalls = total_new

\* a later cycle, run without --notify-first-run, read the flag and notified
\* a new link
C12_Witness ==
    /\ cycles >= 2
    /\ loadKind = "ok"
    /\ init0
    /\ ~args.notify_first_run
    /\ cycCalls >= 1
    /\ cycCalls = total_new

\* ---------------------------------------------------------------------- C13

\* C13: a cycle calls save_state only after every source has been processed
\* (fetched or failed), with initialized = true in the state it hands over,
\* and exactly once: no call before the loop over the sources is done, one
\* call by the time the cycle has returned or raised; the rename of
\* save_state is the last change it makes, so the state file of a returned
\* cycle is that state.
C13_CommittedOnce ==
    /\ pc \in BeforeSave => cycSaves = 0
    /\ pc \in InSave \cup {"returned", "raised"} =>
          /\ cycSaves = 1
          /\ visited = 1..Len(SOURCES)
          /\ DictGet(state, "initialized", FALSE)
    /\ pc = "returned" => fs[STATE_FILE] = [kind |-> "ok", data |-> state]

\* every fetch of the cycle failed, nothing was new, and the cycle saved once
\* and returned 0
C13_Witness ==
    /\ pc = "returned"
    /\ \A k \in 1..Len(SOURCES) : got[k].kind = "failed"
    /\ ret = 0
    /\ cycSaves = 1
    /\ DictGet(fs[STATE_FILE].data, "initialized", FALSE)

\* ---------------------------------------------------------------------- C14

\* C14: throughout a cycle, telegram_notify has been called for every new
\* link found so far if the loaded state had initialized = true or
\* notify_first_run is set, and for none otherwise; the flag read for the
\* decision is the loaded one until all sources have been processed.
C14_NotificationPolicy ==
    loadKind # "none" =>
        /\ cycCalls = IF init0 \/ args.notify_first_run THEN total_new ELSE 0
        /\ pc \in BeforeSave => DictGet(state, "initialized", FALSE) = init0
        /\ total_new = Len(newly_seen)

\* a cycle that loaded initialized = true, run without --notify-first-run,
\* has notified a new link of each source
C14_Witness ==
    /\ init0
    /\ ~args.notify_first_run
    /\ total_new = Len(SOURCES)
    /\ cycCalls = Len(SOURCES)

\* ---------------------------------------------------------------------- C15

\* the j-th sleep of a fetch call lasts 1.5 * j seconds
SleepsGrow == \A j \in 1..Len(sleeps) : sleeps[j] = 15 * j

\* C15: a fetch call that has ended after k requests has slept k - 1 times,
\* the j-th time for 1.5 * j seconds: no sleep follows the last failed
\* attempt before the error is raised, none follows a successful attempt.
C15_BackoffBetweenAttempts ==
    /\ SleepsGrow
    /\ fetchRes.kind \in {"ret", "raise"} => Len(sleeps) = nreq - 1

\* what the code does: one sleep after every failed request, the last one
\* included, and none after the request that succeeded
C15_SleepAfterEveryFailure ==
    /\ SleepsGrow
    /\ fetchRes.kind = "ret" => Len(sleeps) = nreq - 1
    /\ fetchRes.kind = "raise" => Len(sleeps) = nreq

\* ---------------------------------------------------------------------- C16

\* the keys of the links this cycle has called telegram_notify for
NotifiedKeys ==
    IF ShouldNotify(args.notify_first_run, state) THEN Range(newly_seen)
    ELSE {}

\* the seen set a cycle started now would load
NextSeen(f, readable) == DictGet(load_state(f[STATE_FILE], readable), "seen", {})

\* the state file after the step is what it was when the cycle started
FileUntouched == fs'[STATE_FILE] = fileAtStart

\* the next cycle takes every link this cycle has notified for new
NotifiedStayNew ==
    \A key \in NotifiedKeys : \A readable \in BOOLEAN :
        key \notin NextSeen(fs', readable)

\* a step that interrupts or kills a cycle before its save_state
InterruptedBeforeSave == pc \in BeforeSave /\ pc' = "exited"

\* C16, as stated: when run_once is interrupted before its save_state, the
\* state file is what it was when the cycle started, and the links notified
\* in the interrupted cycle are taken for new by the next cycle.
C16_AsStated ==
    [][InterruptedBeforeSave => (FileUntouched /\ NotifiedStayNew)]_vars

\* C16, amended: the state file is what it was when the cycle started, and
\* the links notified in the interrupted cycle are taken for new by the next
\* cycle when the load_state of the interrupted cycle had read the state
\* file.
C16_InterruptLeavesState ==
    [][InterruptedBeforeSave =>
          /\ FileUntouched
          /\ loadKind # "unreadable" => NotifiedStayNew]_vars

\* a cycle was interrupted after it had notified a link: the link's
\* fingerprint is not in the state file, which is as the cycle found it
C16_Witness ==
    /\ pc = "exited"
    /\ crashPc \in BeforeSave
    /\ fs[STATE_FILE] = fileAtStart
    /\ \E fp \in Fingerprints : calls[fp] >= 1 /\ fp \notin PersistedIn(fs)

\* ---------------------------------------------------------------------- C17

\* the step has called telegram_notify with a credential unset or empty
DisabledCall ==
    /\ lastNotify.kind = "call"
    /\ Absent(lastNotify.token) \/ Absent(lastNotify.chat_id)

\* C17: when the bot token or the chat id is absent (unset or empty),
\* telegram_notify returns False without reaching requests.post, and the
\* cycle has recorded the link's fingerprint among the newly seen ones, which
\* a returned cycle has persisted.
C17_DisabledNotifier ==
    /\ DisabledCall =>
          /\ ~lastNotify.posted
          /\ ~lastNotify.returned
          /\ lastNotify.key \in Range(newly_seen)
    /\ pc = "returned" => Range(newly_seen) \subseteq PersistedIn(fs)

\* telegram_notify was called with a token and an empty chat id: nothing was
\* posted, and the fingerprint is recorded
C17_Witness ==
    /\ lastNotify.kind = "call"
    /\ lastNotify.token = "x"
    /\ lastNotify.chat_id = ""
    /\ ~lastNotify.posted
    /\ lastNotify.key \in Range(newly_seen)

\* ---------------------------------------------------------------------- C18

\* extract_links (lines 85-108) followed statement by statement on one page
\* text of one source; ext.links is what of the list being looped over is
\* still to come

\* one pass of the normalising loop (lines 90-100)
CleanStep(cleaned, link, domain) ==
    IF DomainIn(domain, Netloc(Normalize(link)))
    THEN Append(cleaned, Normalize(link))
    ELSE cleaned

\* one pass of the dedupe loop (lines 104-107)
DedupeStep(deduped, sn, l) ==
    IF l \notin sn THEN Append(deduped, l) ELSE deduped

ExtractCall ==
    /\ Started
    /\ args = [interval |-> 0, notify_first_run |-> FALSE]
    /\ fs[STATE_FILE] = Missing
    /\ \E k \in 1..Len(SOURCES) : \E text \in Pages[k] :
          ext = [pc |-> "findall", source |-> k, text |-> text,
                 matches |-> <<>>, links |-> <<>>, clean |-> <<>>,
                 seen |-> {}, deduped |-> <<>>]

\* line 88
ExtractFindAll ==
    /\ ext.pc = "findall"
    /\ LET found == FindAll(SOURCES[ext.source].pattern, ext.text)
       IN  ext' = [ext EXCEPT !.pc = "clean", !.matches = found,
                              !.links = found]
    /\ UNCHANGED <<prog, hist>>

\* lines 90-100, and line 104 when the loop is over
ExtractClean ==
    /\ ext.pc = "clean"
    /\ IF ext.links # <<>>
       THEN ext' = [ext EXCEPT
                       !.clean = CleanStep(@, Head(ext.links),
                                           SOURCES[ext.source].domain),
                       !.links = Tail(@)]
       ELSE ext' = [ext EXCEPT !.pc = "dedupe", !.links = ext.clean]
    /\ UNCHANGED <<prog, hist>>

\* lines 104-107, and line 108 when the loop is over
ExtractDedupe ==
    /\ ext.pc = "dedupe"
    /\ IF ext.links # <<>>
       THEN ext' = [ext EXCEPT
                       !.deduped = DedupeStep(@, ext.seen, Head(ext.links)),
                       !.seen = @ \cup {Head(ext.links)},
                       !.links = Tail(@)]
       ELSE ext' = [ext EXCEPT !.pc = "returned"]
    /\ UNCHANGED <<prog, hist>>

ExtractNext == ExtractFindAll \/ ExtractClean \/ ExtractDedupe

ExtractSpec == ExtractCall /\ [][ExtractNext]_vars

\* sep is in m from position j on
StartsAt(m, j, sep) ==
    /\ j + Len(sep) - 1 <= Len(m)
    /\ SubSeq(m, j, j + Len(sep) - 1) = sep

\* the match cut where its first '#' or its first '?utm_' starts: its
\* longest prefix in which neither starts
Cut(m) ==
    LET free == {n \in 0..Len(m) :
                    \A j \in 1..n :
                        /\ m[j] # "#"
                        /\ ~StartsAt(m, j, <<"?", "u", "t", "m", "_">>)}
    IN  SubSeq(m, 1, CHOOSE n \in free : \A k \in free : k <= n)

\* the normalized matches of the call, in the order of the matches, that
\* pass the filter on the host
Normalized ==
    SelectSeq([j \in DOMAIN ext.matches |-> Cut(ext.matches[j])],
              LAMBDA l : DomainIn(SOURCES[ext.source].domain, Netloc(l)))

\* where l occurs first in s
FirstAt(s, l) == CHOOSE j \in DOMAIN s : s[j] = l /\ \A k \in 1..(j - 1) : s[k] # l

AddedToSeen == PersistedIn(fs) \ seen

\* no link comes out of the pages of two sources: each pattern spells out
\* its own host
SourcesApart ==
    \A x, y \in Extractable : x[1] # y[1] => Range(x[2]) \cap Range(y[2]) = {}

\* C19: the count a completed cycle returns is the number of fingerprints it
\* has added to the seen set, the size of the persisted seen set less the
\* size of the seen set it loaded; no link is counted for two sources, as no
\* link comes from two sources.
C19_ReturnsGrowth ==
    /\ SourcesApart
    /\ pc = "returned" =>
          /\ ret = total_new
          /\ ret = Cardinality(AddedToSeen)
          /\ ret = Cardinality(PersistedIn(fs)) - Cardinality(seen)

\* a cycle that had loaded a fingerprint and found its link again, with a
\* new link of the other source, has returned 1
C19_Witness ==
    /\ pc = "returned"
    /\ seen # {}
    /\ seen \cap FoundKeys # {}
    /\ ret = 1
    /\ Cardinality(PersistedIn(fs)) = 2

====
